---- MODULE Spec2Model ----
(***************************************************************************)
(* Einliterflasche/game: the systems of the two applications kept in the   *)
(* repository.                                                             *)
(*   "main"     : main.rs + camera.rs  (orbit camera with zoom, camera-    *)
(*                relative player movement, all in the Update schedule)    *)
(*   "controls" : controls.rs          (character controller in            *)
(*                FixedUpdate, orbit camera in Update)                     *)
(* Floats are fixed-point integers: lengths, positions and velocities in   *)
(* units of 1/One, angles in units of 0.01 rad.                            *)
(***************************************************************************)
EXTENDS Integers, Sequences, FiniteSets, TLC

\* ---------------------------------------------------------------- bounds
MaxFrames == 2        \* Update frames that are run
MaxSteps == 3         \* FixedUpdate steps that are run
MaxPlayers == 2       \* entities the host world may hold with the Player marker
MaxCameras == 2       \* entities the host world may hold with a camera

\* ------------------------------------------------------------ fixed point
\* 1.0 in fixed point.  5*13*17 so that the direction cosines below are
\* rational points of the unit circle: a rotation then keeps the length of
\* a vector exactly, as glam's unit quaternions do up to rounding.
One == 5 * 13 * 17

\* std::f32::consts::PI in units of 0.01 rad
PI == 314
HalfPi == PI \div 2
TwoPi == 2 * PI

Abs(a) == IF a < 0 THEN -a ELSE a
Sign(a) == IF a < 0 THEN -1 ELSE IF a > 0 THEN 1 ELSE 0
Max(a, b) == IF a >= b THEN a ELSE b
Min(a, b) == IF a <= b THEN a ELSE b

\* float division, rounded toward zero
DivT(a, b) == Sign(a) * Sign(b) * (Abs(a) \div Abs(b))

RECURSIVE SqrtIter(_, _)
SqrtIter(n, x) ==
    LET y == (x + n \div x) \div 2
    IN  IF y >= x THEN x ELSE SqrtIter(n, y)

\* f32::sqrt, rounded down
Sqrt(n) == IF n = 0 THEN 0 ELSE SqrtIter(n, n)

\* ------------------------------------------------------------------ Vec3
Vec3(a, b, c) == [x |-> a, y |-> b, z |-> c]
ZERO == Vec3(0, 0, 0)
VAdd(u, v) == Vec3(u.x + v.x, u.y + v.y, u.z + v.z)
VSub(u, v) == Vec3(u.x - v.x, u.y - v.y, u.z - v.z)
VNeg(u) == Vec3(-u.x, -u.y, -u.z)
\* a vector in fixed point times a scalar given as the fraction num/den
VMul(u, num, den) == Vec3(DivT(u.x * num, den), DivT(u.y * num, den), DivT(u.z * num, den))
LengthSquared(u) == u.x * u.x + u.y * u.y + u.z * u.z

\* Vec3::normalize_or_zero
NormalizeOrZero(u) ==
    LET len == Sqrt(LengthSquared(u))
    IN  IF len = 0 THEN ZERO ELSE VMul(u, One, len)

\* ------------------------------------------------------------ trigonometry
\* <<cos, sin>> * One for the angles the inputs below can produce
\* (multiples of 0.52 rad for pitch, quarter turns for yaw), each rounded to
\* a point of the circle of radius One.
TrigTable ==
    [a \in {0, 52, 104, 156, 157, 208, 260, 312, 314} |->
        CASE a = 0   -> <<1105, 0>>
          [] a = 52  -> <<952, 561>>
          [] a = 104 -> <<561, 952>>
          [] a = 156 -> <<47, 1104>>
          [] a = 157 -> <<0, 1105>>
          [] a = 208 -> <<-520, 975>>
          [] a = 260 -> <<-952, 561>>
          [] a = 312 -> <<-1104, 47>>
          [] a = 314 -> <<-1105, 0>>]

\* wrap an angle into (-PI, PI], as a quaternion stores it
WrapPi(a) ==
    LET m == (a + PI - 1) % TwoPi
    IN  m - PI + 1

\* the table's angle nearest to each angle of 0..PI
Snap ==
    [a \in 0..PI |->
        CHOOSE k \in DOMAIN TrigTable : \A j \in DOMAIN TrigTable : Abs(a - k) <= Abs(a - j)]

Cos(a) == TrigTable[Snap[Abs(WrapPi(a))]][1]
Sin(a) == Sign(WrapPi(a)) * TrigTable[Snap[Abs(WrapPi(a))]][2]

\* ------------------------------------------------------------------ Quat
\* A rotation is kept by its YXZ Euler angles: Ry(yaw) * Rx(pitch) * Rz(roll).
\* No system of the repository introduces roll, so mul_vec3 is given for
\* roll = 0.
Quat(yw, pt, rl) == [yaw |-> WrapPi(yw), pitch |-> pt, roll |-> rl]
IDENTITY == Quat(0, 0, 0)

\* Quat * Vec3 for a vector in plain units; the result is in fixed point
MulVec3(q, v) ==
    LET cp == Cos(q.pitch)
        sp == Sin(q.pitch)
        cy == Cos(q.yaw)
        sy == Sin(q.yaw)
        \* Rx(pitch) * v, in fixed point
        ry == v.y * cp - v.z * sp
        rz == v.y * sp + v.z * cp
        rx == v.x * One
    IN  Vec3(DivT(rx * cy + rz * sy, One), ry, DivT(rz * cy - rx * sy, One))

\* Transform::forward / back / left / right
Forward(q) == MulVec3(q, Vec3(0, 0, -1))
Back(q) == MulVec3(q, Vec3(0, 0, 1))
Left(q) == MulVec3(q, Vec3(-1, 0, 0))
Right(q) == MulVec3(q, Vec3(1, 0, 0))

\* sum of a sequence of numbers (Iterator::fold with +)
RECURSIVE Sum(_)
Sum(s) == IF s = <<>> THEN 0 ELSE Head(s) + Sum(Tail(s))

RECURSIVE Sum2(_)
Sum2(s) == IF s = <<>> THEN <<0, 0>>
           ELSE <<Head(s)[1] + Sum2(Tail(s))[1], Head(s)[2] + Sum2(Tail(s))[2]>>



\* ============================================================== the state
VARIABLES
    app,        \* which application runs: "main" or "controls"
    pc,         \* the schedule's position
    aborted,    \* a system has panicked: the process is gone
    last,       \* the system that ran last
    frame,      \* Update frames completed
    nCam,       \* entities matching the camera query
    nWin,       \* entities matching the primary-window query
    players,    \* entities carrying the Player marker
    cursor,     \* the primary window's cursor options
    cam,        \* the camera: Transform (rotation, translation) and Camera.distance
    pos,        \* Transform.translation of each Player entity
    wheel,      \* the MouseWheel events of this frame (their y)
    ran,        \* main: the Update systems that have run in this frame
    steps,      \* controls: FixedUpdate steps started
    keys,       \* controls: ButtonInput<KeyCode>; "Space" stands for just_pressed(Space)
    hits,       \* controls: ShapeHits of each Player entity
    grounded,   \* controls: which entities carry the Grounded marker
    vel,        \* controls: LinearVelocity of each Player entity
    vel0,       \* controls: LinearVelocity when the current fixed step began
    events,     \* controls: MovementAction events not read yet
    commands    \* controls: deferred commands not applied yet

vars == <<app, pc, aborted, last, frame, nCam, nWin, players, cursor, cam, pos,
          wheel, ran, steps, keys, hits, grounded, vel, vel0, events, commands>>

popVars == <<nCam, players>>
ctlVars == <<steps, keys, hits, grounded, vel, vel0, events, commands>>

Entities == 1..MaxPlayers

\* a query that takes the first match instead of demanding exactly one
IsSingleLoose(n) == n >= 1

\* Query::get_single / single: Ok when exactly one entity matches
IsSingle(n) == n = 1
\* the one matching entity
Single(S) == CHOOSE e \in S : TRUE

\* ------------------------------------------------------------- constants
\* Camera::default
DefaultDistance == 10
\* Camera::default().mouse_sensitivity, in percent
MouseSensitivityPct == 50
\* Speed { value: 2.5 }, in tenths
SpeedTenths == 25
\* the borderless fullscreen primary window, in pixels
Window == [width |-> 1920, height |-> 1080]

\* ---------------------------------------------------------------- inputs
\* the MouseMotion events one frame can bring, as pixel deltas: none, a
\* quarter turn of yaw (half the window's width), 0.52 rad of pitch up,
\* 1.04 rad down, and 2.08 rad of pitch in two events
MotionQueues ==
    {<<>>, <<<<960, 0>>>>, <<<<0, -179>>>>, <<<<0, 358>>>>,
     <<<<0, 358>>, <<0, 358>>>>}
\* the MouseWheel events one frame can bring, as their y: none, two that
\* cancel, a step out, a zoom to the floor, a zoom beyond it
WheelQueues == {<<>>, <<1, -1>>, <<-1>>, <<9>>, <<9, 9>>}
\* the key combinations held during a frame
PressedSets == {{}, {"W"}, {"S"}, {"A", "D"}, {"W", "A"}}
\* Time::delta_seconds in milliseconds (a frame that took 0.4 s)
DeltaMs == {400}
MoveKeys == {"W", "A", "S", "D"}

\* ================================================================ main.rs
\* a panic inside a system: the process aborts
Panic(sys) ==
    /\ aborted' = TRUE
    /\ last' = sys

\* setup_cursor (Startup)
SetupCursor ==
    /\ app = "main" /\ pc = "startup" /\ ~aborted
    /\ IF ~IsSingle(nWin)
       THEN /\ Panic("setup_cursor")
            /\ UNCHANGED <<pc, cursor>>
       ELSE /\ cursor' = [visible |-> FALSE, grab_mode |-> "Locked"]
            /\ pc' = "input"
            /\ last' = "setup_cursor"
            /\ UNCHANGED aborted
    /\ UNCHANGED <<app, frame, nWin, popVars, cam, pos, wheel, ran, ctlVars>>

\* the engine's event pump at the start of a frame: the scroll events of
\* this frame are queued
PollInput ==
    /\ app = "main" /\ pc = "input" /\ ~aborted
    /\ frame < MaxFrames
    /\ \E w \in WheelQueues : wheel' = w
    /\ pc' = "update"
    /\ UNCHANGED <<app, aborted, last, frame, nWin, popVars, cursor, cam, pos, ran, ctlVars>>

\* the user closes the primary window
CloseWindow ==
    /\ app = "main" /\ pc = "input" /\ ~aborted
    /\ nWin = 1
    /\ nWin' = 0
    /\ UNCHANGED <<app, pc, aborted, last, frame, popVars, cursor, cam, pos, wheel, ran, ctlVars>>

\* pixels to 0.01 rad: delta / window size * mouse_sensitivity * 2 PI
MouseAngle(pixels, size) == DivT(pixels * MouseSensitivityPct * TwoPi, 100 * size)

\* camera.rs orbit_camera, lines 54-57: keep the camera out of the player
Nudge(translation, playerTranslation, distance) ==
    IF translation = playerTranslation
    THEN [translation EXCEPT !.x = @ + distance * One]
    ELSE translation

\* camera.rs orbit_camera, lines 70-81: yaw always, pitch only while up.y > 0
OrbitRotation(rotation, delta) ==
    LET yawed == Quat(rotation.yaw - delta[1], rotation.pitch, rotation.roll)
        pitched == [yawed EXCEPT !.pitch = WrapPi(@ - delta[2])]
    IN  IF MulVec3(pitched, Vec3(0, 1, 0)).y > 0 THEN pitched ELSE yawed

\* the offset added to the camera's own translation instead of the player's
OrbitTranslationDrift(playerTranslation, rotation, distance) ==
    VAdd(cam.translation, MulVec3(rotation, Vec3(0, 0, distance)))

\* camera.rs orbit_camera, lines 83-86: rotate the cam around the player
OrbitTranslation(playerTranslation, rotation, distance) ==
    VAdd(playerTranslation, MulVec3(rotation, Vec3(0, 0, distance)))

\* camera.rs orbit_camera
OrbitCamera ==
    /\ app = "main" /\ pc = "update" /\ ~aborted
    /\ "orbit_camera" \notin ran
    /\ ran' = ran \cup {"orbit_camera"}
    /\ IF ~IsSingle(nCam) \/ ~IsSingle(Cardinality(players))
       THEN /\ Panic("orbit_camera")
            /\ UNCHANGED cam
       ELSE \E motions \in MotionQueues :
              LET player == pos[Single(players)]
                  sum == Sum2(motions)
                  nudged == Nudge(cam.translation, player, cam.distance)
                  delta == <<MouseAngle(sum[1], Window.width),
                             MouseAngle(sum[2], Window.height)>>
                  rot == OrbitRotation(cam.rotation, delta)
              IN  IF ~IsSingle(nWin)
                  THEN /\ Panic("orbit_camera")
                       /\ cam' = [cam EXCEPT !.translation = nudged]
                  ELSE /\ cam' = [cam EXCEPT
                                    !.rotation = rot,
                                    !.translation = OrbitTranslation(player, rot, cam.distance)]
                       /\ last' = "orbit_camera"
                       /\ UNCHANGED aborted
    /\ UNCHANGED <<app, pc, frame, nWin, popVars, cursor, pos, wheel, ctlVars>>

\* the subtraction without its floor
ZoomDistanceUnclamped(distance, delta) == distance - delta

\* camera.rs apply_zoom, line 99
ZoomDistance(distance, delta) == Max(distance - delta, 1)

\* camera.rs apply_zoom
ApplyZoom ==
    /\ app = "main" /\ pc = "update" /\ ~aborted
    /\ "apply_zoom" \notin ran
    /\ ran' = ran \cup {"apply_zoom"}
    /\ LET delta == Sum(wheel)
       IN  IF delta # 0
           THEN IF ~IsSingle(nCam)
                THEN /\ Panic("apply_zoom")
                     /\ UNCHANGED cam
                ELSE /\ cam' = [cam EXCEPT !.distance = ZoomDistance(@, delta)]
                     /\ last' = "apply_zoom"
                     /\ UNCHANGED aborted
           ELSE /\ last' = "apply_zoom"
                /\ UNCHANGED <<cam, aborted>>
    /\ UNCHANGED <<app, pc, frame, nWin, popVars, cursor, pos, wheel, ctlVars>>

\* main.rs player_movement, lines 80-98: the direction the pressed keys give
MoveDirection(rotation, pressed) ==
    LET f == IF "W" \in pressed THEN Forward(rotation) ELSE ZERO
        l == IF "A" \in pressed THEN Left(rotation) ELSE ZERO
        b == IF "S" \in pressed THEN Back(rotation) ELSE ZERO
        r == IF "D" \in pressed THEN Right(rotation) ELSE ZERO
    IN  [VAdd(VAdd(f, l), VAdd(b, r)) EXCEPT !.y = 0]

\* main.rs player_movement, lines 100-101
MovedTranslation(translation, direction, ms) ==
    VAdd(translation, VMul(NormalizeOrZero(direction), SpeedTenths * ms, 10000))

\* main.rs player_movement
PlayerMovement ==
    /\ app = "main" /\ pc = "update" /\ ~aborted
    /\ "player_movement" \notin ran
    /\ ran' = ran \cup {"player_movement"}
    /\ IF ~IsSingle(Cardinality(players)) \/ ~IsSingle(nCam)
       THEN /\ Panic("player_movement")
            /\ UNCHANGED pos
       ELSE \E pressed \in PressedSets, ms \in DeltaMs :
              /\ pos' = [pos EXCEPT ![Single(players)] =
                            MovedTranslation(@, MoveDirection(cam.rotation, pressed), ms)]
              /\ last' = "player_movement"
              /\ UNCHANGED aborted
    /\ UNCHANGED <<app, pc, frame, nWin, popVars, cursor, cam, wheel, ctlVars>>

\* CameraPlugin::build and main: the three Update systems, in no declared order
UpdateSystems == {"orbit_camera", "apply_zoom", "player_movement"}

\* the end of an Update frame
EndFrame ==
    /\ app = "main" /\ pc = "update" /\ ~aborted
    /\ ran = UpdateSystems
    /\ ran' = {}
    /\ pc' = "input"
    /\ frame' = frame + 1
    /\ wheel' = <<>>
    /\ UNCHANGED <<app, aborted, last, nWin, popVars, cursor, cam, pos, ctlVars>>


\* ============================================================ controls.rs
\* MovementBundle::default
MovementAcceleration == 30
MovementDampingPct == 95
JumpImpulse == 7
\* Time::delta_secs in FixedUpdate: the fixed timestep, 1/64 s
FixedHz == 64
\* orbit_camera's constants: 10.0, 0.01 rad per pixel, +-(PI/2 - 0.01)
CAMERA_DISTANCE == 10
SENSITIVITY == 1
PITCH_RANGE == [start |-> -(HalfPi - 1), end |-> HalfPi - 1]

\* the key states a frame can start with: nothing, one key, a diagonal, one
\* axis cancelled, both axes cancelled, each with and without a fresh Space
KeyStates ==
    {{}, {"W"}, {"S", "D"}, {"W", "S", "A"}, {"W", "A", "S", "D"},
     {"Space"}, {"W", "Space"}, {"A", "D", "Space"}}
\* AccumulatedMouseMotion.delta in pixels
MouseDeltas == {<<0, 0>>, <<157, 0>>, <<0, -104>>, <<0, 208>>}

Vec2(a, b) == [x |-> a, y |-> b]

\* Vec2::clamp_length_max
ClampLengthMax(v, max) ==
    LET lengthSq == v.x * v.x + v.y * v.y
    IN  IF lengthSq > max * max
        THEN Vec2(DivT(v.x * max, Sqrt(lengthSq)), DivT(v.y * max, Sqrt(lengthSq)))
        ELSE v

Bit(b) == IF b THEN 1 ELSE 0

\* the direction without clamp_length_max
KeyDirectionUnclamped(pressed) ==
    Vec2((Bit("D" \in pressed) - Bit("A" \in pressed)) * One,
         (Bit("W" \in pressed) - Bit("S" \in pressed)) * One)

\* keyboard_input, lines 123-130
KeyDirection(pressed) ==
    LET horizontal == Bit("D" \in pressed) - Bit("A" \in pressed)
        vertical == Bit("W" \in pressed) - Bit("S" \in pressed)
    IN  ClampLengthMax(Vec2(horizontal * One, vertical * One), One)

\* keyboard_input, lines 132-138: the events one run sends
KeyEvents(pressed) ==
    (IF KeyDirection(pressed) # Vec2(0, 0)
     THEN <<[type |-> "Move", direction |-> KeyDirection(pressed)]>> ELSE <<>>)
    \o (IF "Space" \in pressed THEN <<[type |-> "Jump"]>> ELSE <<>>)

\* the chain with damping placed before movement
ChainNextSwapped(sys) ==
    CASE sys = "keyboard_input" -> "update_grounded"
      [] sys = "update_grounded" -> "sync"
      [] sys = "sync" -> "apply_movement_damping"
      [] sys = "apply_movement_damping" -> "movement"
      [] sys = "movement" -> "physics"

\* CharacterControllerPlugin::build: the FixedUpdate systems chained, with
\* the sync point .chain() puts after a system that queues commands; the
\* position after each
ChainNext(sys) ==
    CASE sys = "keyboard_input" -> "update_grounded"
      [] sys = "update_grounded" -> "sync"
      [] sys = "sync" -> "movement"
      [] sys = "movement" -> "apply_movement_damping"
      [] sys = "apply_movement_damping" -> "physics"

\* the engine's input handling at the start of a frame
PollKeys ==
    /\ app = "controls" /\ pc = "input" /\ ~aborted
    /\ frame < MaxFrames
    /\ keys' \in KeyStates
    /\ pc' = "fixed"
    /\ UNCHANGED <<app, aborted, last, frame, nWin, popVars, cursor, cam, pos, wheel, ran,
                   steps, hits, grounded, vel, vel0, events, commands>>

\* keyboard_input: the first system of a fixed step
KeyboardInput ==
    /\ app = "controls" /\ pc = "fixed" /\ ~aborted
    /\ steps < MaxSteps
    /\ steps' = steps + 1
    /\ vel0' = vel
    /\ events' = events \o KeyEvents(keys)
    /\ pc' = ChainNext("keyboard_input")
    /\ last' = "keyboard_input"
    /\ UNCHANGED <<app, aborted, frame, nWin, popVars, cursor, cam, pos, wheel, ran,
                   keys, hits, grounded, vel, commands>>

\* the entities of a query, in iteration order
RECURSIVE Ordered(_)
Ordered(S) ==
    IF S = {} THEN <<>>
    ELSE LET e == CHOOSE m \in S : \A o \in S : m <= o
         IN  <<e>> \o Ordered(S \ {e})

\* a marker that is inserted on a hit and never removed
GroundedCommandSticky(e, shapeHits) ==
    IF Len(shapeHits) > 0
    THEN [op |-> "insert", entity |-> e]
    ELSE [op |-> "keep", entity |-> e]

\* update_grounded, lines 146-151: the command queued for one entity
GroundedCommand(e, shapeHits) ==
    IF Len(shapeHits) > 0
    THEN [op |-> "insert", entity |-> e]
    ELSE [op |-> "remove", entity |-> e]

\* update_grounded
UpdateGrounded ==
    /\ app = "controls" /\ pc = "update_grounded" /\ ~aborted
    /\ LET order == Ordered(players)
       IN  commands' = commands \o [i \in 1..Len(order) |-> GroundedCommand(order[i], hits[order[i]])]
    /\ pc' = ChainNext("update_grounded")
    /\ last' = "update_grounded"
    /\ UNCHANGED <<app, aborted, frame, nWin, popVars, cursor, cam, pos, wheel, ran,
                   steps, keys, hits, grounded, vel, vel0, events>>

RECURSIVE Applied(_, _)
Applied(marked, queue) ==
    IF queue = <<>> THEN marked
    ELSE LET c == Head(queue)
         IN  Applied(CASE c.op = "insert" -> marked \cup {c.entity}
                           [] c.op = "remove" -> marked \ {c.entity}
                           [] OTHER -> marked,
                     Tail(queue))

\* the sync point .chain() puts after a system with Commands
ApplyDeferred ==
    /\ app = "controls" /\ pc = "sync" /\ ~aborted
    /\ grounded' = Applied(grounded, commands)
    /\ commands' = <<>>
    /\ pc' = ChainNext("sync")
    /\ UNCHANGED <<app, aborted, last, frame, nWin, popVars, cursor, cam, pos, wheel, ran,
                   steps, keys, hits, vel, vel0, events>>

\* a jump that does not ask whether the controller is grounded
ApplyEventAirJump(event, velocity, isGrounded) ==
    IF event.type = "Move"
    THEN [velocity EXCEPT
            !.x = @ + DivT(event.direction.x * MovementAcceleration, FixedHz),
            !.z = @ - DivT(event.direction.y * MovementAcceleration, FixedHz)]
    ELSE [velocity EXCEPT !.y = JumpImpulse * One]

\* movement, lines 183-193: one event on one controller
ApplyEvent(event, velocity, isGrounded) ==
    IF event.type = "Move"
    THEN [velocity EXCEPT
            !.x = @ + DivT(event.direction.x * MovementAcceleration, FixedHz),
            !.z = @ - DivT(event.direction.y * MovementAcceleration, FixedHz)]
    ELSE IF isGrounded
         THEN [velocity EXCEPT !.y = JumpImpulse * One]
         ELSE velocity

RECURSIVE ApplyEvents(_, _, _)
ApplyEvents(queue, velocity, isGrounded) ==
    IF queue = <<>> THEN velocity
    ELSE ApplyEvents(Tail(queue), ApplyEvent(Head(queue), velocity, isGrounded), isGrounded)

\* movement
Movement ==
    /\ app = "controls" /\ pc = "movement" /\ ~aborted
    /\ vel' = [e \in Entities |->
                 IF e \in players THEN ApplyEvents(events, vel[e], e \in grounded) ELSE vel[e]]
    /\ events' = <<>>
    /\ pc' = ChainNext("movement")
    /\ last' = "movement"
    /\ UNCHANGED <<app, aborted, frame, nWin, popVars, cursor, cam, pos, wheel, ran,
                   steps, keys, hits, grounded, vel0, commands>>

\* damping on all three axes, as LinearDamping would do
DampedAllAxes(velocity) ==
    [x |-> DivT(velocity.x * MovementDampingPct, 100),
     y |-> DivT(velocity.y * MovementDampingPct, 100),
     z |-> DivT(velocity.z * MovementDampingPct, 100)]

\* apply_movement_damping, lines 202-203
Damped(velocity) ==
    [velocity EXCEPT !.x = DivT(@ * MovementDampingPct, 100),
                     !.z = DivT(@ * MovementDampingPct, 100)]

\* apply_movement_damping
ApplyMovementDamping ==
    /\ app = "controls" /\ pc = "apply_movement_damping" /\ ~aborted
    /\ vel' = [e \in Entities |-> IF e \in players THEN Damped(vel[e]) ELSE vel[e]]
    /\ pc' = ChainNext("apply_movement_damping")
    /\ last' = "apply_movement_damping"
    /\ UNCHANGED <<app, aborted, frame, nWin, popVars, cursor, cam, pos, wheel, ran,
                   steps, keys, hits, grounded, vel0, events, commands>>

\* the physics plugin's step on the RigidBody::Dynamic controllers: bodies
\* move with their velocity and the shape casts are answered anew
Physics ==
    /\ app = "controls" /\ pc = "physics" /\ ~aborted
    /\ pos' = [e \in Entities |-> IF e \in players THEN VAdd(pos[e], VMul(vel[e], 1, FixedHz)) ELSE pos[e]]
    /\ \E h \in [players -> {<<>>, <<"ground">>}] :
         hits' = [e \in Entities |-> IF e \in players THEN h[e] ELSE <<>>]
    /\ pc' = "fixed"
    /\ UNCHANGED <<app, aborted, last, frame, nWin, popVars, cursor, cam, wheel, ran,
                   steps, keys, grounded, vel, vel0, events, commands>>

Clamp(a, lo, hi) == IF a < lo THEN lo ELSE IF a > hi THEN hi ELSE a

\* Quat::to_euler(EulerRot::YXZ)
ToEuler(q) == <<q.yaw, q.pitch, q.roll>>

\* the pitch accumulated without the clamp
OrbitRotationCtlUnclamped(rotation, mouse) ==
    Quat(rotation.yaw - mouse[1], rotation.pitch - mouse[2], rotation.roll)

\* controls.rs orbit_camera, lines 225-236
OrbitRotationCtl(rotation, mouse) ==
    LET mouseY == -mouse[2]
        deltaYaw == -mouse[1] * SENSITIVITY
        deltaPitch == mouseY * SENSITIVITY
        euler == ToEuler(rotation)
        pitch == Clamp(euler[2] + deltaPitch, PITCH_RANGE.start, PITCH_RANGE.end)
        yaw == euler[1] + deltaYaw
    IN  Quat(yaw, pitch, euler[3])

\* controls.rs orbit_camera, line 239: follow the player
FollowTranslation(playerTranslation, rotation) ==
    VSub(playerTranslation, VMul(Forward(rotation), CAMERA_DISTANCE, 1))

\* controls.rs orbit_camera (Update)
OrbitCameraCtl ==
    /\ app = "controls" /\ pc = "fixed" /\ ~aborted
    /\ IF ~IsSingle(Cardinality(players)) \/ ~IsSingle(nCam)
       THEN /\ Panic("orbit_camera")
            /\ UNCHANGED <<cam, pc, frame>>
       ELSE \E mouse \in MouseDeltas :
              LET rot == OrbitRotationCtl(cam.rotation, mouse)
              IN  /\ cam' = [cam EXCEPT
                               !.rotation = rot,
                               !.translation = FollowTranslation(pos[Single(players)], rot)]
                  /\ pc' = "input"
                  /\ frame' = frame + 1
                  /\ last' = "orbit_camera"
                  /\ UNCHANGED aborted
    /\ UNCHANGED <<app, nWin, popVars, cursor, pos, wheel, ran, ctlVars>>

\* =========================================================== specification
Origin == Vec3(0, 0, 0)
\* setup_scene: Transform::from_xyz(0.0, 0.5, 0.0)
PlayerStart == Vec3(0, One \div 2, 0)

InitState ==
    /\ aborted = FALSE
    /\ last = "none"
    /\ frame = 0
    /\ nWin = 1
    /\ cursor = [visible |-> TRUE, grab_mode |-> "None"]
    /\ cam = [rotation |-> IDENTITY, translation |-> Origin, distance |-> DefaultDistance]
    /\ wheel = <<>>
    /\ ran = {}
    /\ steps = 0
    /\ keys = {}
    /\ hits = [e \in Entities |-> <<>>]
    /\ grounded = {}
    /\ vel = [e \in Entities |-> ZERO]
    /\ vel0 = [e \in Entities |-> ZERO]
    /\ events = <<>>
    /\ commands = <<>>
    /\ \/ app = "main" /\ pc = "startup" /\ pos = [e \in Entities |-> PlayerStart]
       \/ app = "controls" /\ pc = "input" /\ pos = [e \in Entities |-> Origin]

\* the world main.rs sets up: one camera, one player
Init ==
    /\ InitState
    /\ nCam = 1
    /\ players = {1}

\* any world a host application may register the plugins into
InitWorld ==
    /\ InitState
    /\ nCam \in 0..MaxCameras
    /\ \E n \in 0..MaxPlayers : players = 1..n

\* main.rs with camera.rs
NextMain ==
    \/ SetupCursor
    \/ PollInput
    \/ CloseWindow
    \/ OrbitCamera
    \/ ApplyZoom
    \/ PlayerMovement
    \/ EndFrame

\* controls.rs
NextControls ==
    \/ PollKeys
    \/ KeyboardInput
    \/ UpdateGrounded
    \/ ApplyDeferred
    \/ Movement
    \/ ApplyMovementDamping
    \/ Physics
    \/ OrbitCameraCtl

Next == NextMain \/ NextControls

\* both applications, each in the world its setup gives it
Spec == Init /\ [][Next]_vars
\* both applications in any world
SpecWorld == InitWorld /\ [][Next]_vars
\* one application alone
InitMain == Init /\ app = "main"
InitControls == Init /\ app = "controls"
SpecMain == InitMain /\ [][NextMain]_vars
SpecControls == InitControls /\ [][NextControls]_vars


\* ================================================================= claims
ThePlayer == pos[Single(players)]
UpY(q) == MulVec3(q, Vec3(0, 1, 0)).y

ZoomRuns == app = "main" /\ "apply_zoom" \notin ran /\ "apply_zoom" \in ran'

\* C1: from the default distance 10, Camera.distance never drops below 1.0;
\* a run of apply_zoom with a non-zero summed scroll delta d sets it to
\* max(distance - d, 1.0), one with a zero sum leaves it unchanged.
C1_DistanceFloor ==
    /\ [](app = "main" => cam.distance >= 1)
    /\ [][(ZoomRuns /\ ~aborted') =>
            cam'.distance =
                IF Sum(wheel) = 0 THEN cam.distance
                ELSE IF cam.distance - Sum(wheel) >= 1 THEN cam.distance - Sum(wheel)
                ELSE 1]_vars

\* in the first frame apply_zoom has read two scroll events of 9 and the
\* distance stands at the floor: 10 - 18 was clamped
C1_Witness ==
    /\ app = "main" /\ frame = 0 /\ ~aborted
    /\ "apply_zoom" \in ran
    /\ Sum(wheel) = 18
    /\ cam.distance = 1

OrbitRuns(a) ==
    /\ app = a /\ ~aborted'
    /\ IF a = "main"
       THEN "orbit_camera" \notin ran /\ "orbit_camera" \in ran'
       ELSE pc = "fixed" /\ frame' = frame + 1

\* C3: the camera never flips over the vertical: in controls.rs the pitch
\* stays within [-(PI/2 - 0.01), PI/2 - 0.01]; in camera.rs the up vector
\* keeps a strictly positive Y after every frame; in both the yaw is the old
\* yaw plus the pointer's step, with no clamp.
C3_NoFlip ==
    /\ [](app = "controls" =>
            /\ cam.rotation.pitch >= -(HalfPi - 1)
            /\ cam.rotation.pitch <= HalfPi - 1)
    /\ [](app = "main" => UpY(cam.rotation) > 0)
    /\ [][/\ OrbitRuns("controls") =>
               \E m \in MouseDeltas : cam'.rotation.yaw = WrapPi(cam.rotation.yaw - m[1])
          /\ OrbitRuns("main") =>
               \E q \in MotionQueues :
                  cam'.rotation.yaw =
                     WrapPi(cam.rotation.yaw - MouseAngle(Sum2(q)[1], Window.width))]_vars

\* controls.rs, first frame: a pointer step of -2.08 rad from pitch 0 was
\* clamped to the lower limit
C3_Witness ==
    /\ app = "controls" /\ frame = 1 /\ ~aborted
    /\ last = "orbit_camera"
    /\ cam.rotation.pitch = -(HalfPi - 1)

\* C4: in every fixed step the systems run in the order keyboard_input,
\* update_grounded, movement, apply_movement_damping: movement reads the
\* events keyboard_input wrote and the Grounded markers update_grounded set
\* in the same step, and the velocity after the step is the damped result of
\* movement on the velocity the step began with.
C4_ChainOrder ==
    app = "controls" =>
        /\ pc = "update_grounded" => last = "keyboard_input"
        /\ pc = "sync" => last = "update_grounded"
        /\ pc = "movement" =>
              /\ last = "update_grounded"
              /\ events = KeyEvents(keys)
              /\ grounded = {e \in players : hits[e] # <<>>}
              /\ vel = vel0
        /\ pc = "apply_movement_damping" => last = "movement"
        /\ pc = "physics" =>
              /\ last = "apply_movement_damping"
              /\ \A e \in players :
                    vel[e] = Damped(ApplyEvents(KeyEvents(keys), vel0[e], hits[e] # <<>>))

\* the end of a second step in which a grounded controller moved and jumped
C4_Witness ==
    /\ app = "controls" /\ pc = "physics" /\ steps = 2
    /\ {"W", "Space"} \subseteq keys
    /\ 1 \in grounded
    /\ vel[1] # vel0[1]

SingletonSystems == {"setup_cursor", "orbit_camera", "apply_zoom", "player_movement"}

\* the system runs in this step
SystemRuns(sys) ==
    CASE sys = "setup_cursor" -> app = "main" /\ pc = "startup" /\ (pc' = "input" \/ aborted')
      [] sys = "orbit_camera" ->
            \/ app = "main" /\ sys \notin ran /\ sys \in ran'
            \/ app = "controls" /\ pc = "fixed" /\ (frame' = frame + 1 \/ aborted')
      [] OTHER -> app = "main" /\ sys \notin ran /\ sys \in ran'

\* one of the entities the system expects exactly once is missing or doubled
NotSingleton(sys) ==
    CASE sys = "setup_cursor" -> nWin # 1
      [] sys = "orbit_camera" ->
            nCam # 1 \/ Cardinality(players) # 1 \/ (app = "main" /\ nWin # 1)
      [] sys = "apply_zoom" -> nCam # 1
      [] OTHER -> Cardinality(players) # 1 \/ nCam # 1

NothingWritten == cam' = cam /\ pos' = pos /\ vel' = vel /\ cursor' = cursor

\* camera.rs orbit_camera has moved the camera off the player (lines 54-57)
\* before it found the window missing (line 61)
NudgedBeforeAbort(sys) ==
    /\ sys = "orbit_camera" /\ app = "main"
    /\ nCam = 1 /\ Cardinality(players) = 1 /\ nWin # 1
    /\ cam.translation = ThePlayer
    /\ cam' = [cam EXCEPT !.translation.x = @ + cam.distance * One]
    /\ pos' = pos /\ vel' = vel /\ cursor' = cursor

IsMove(event) == event.type = "Move"
IsJump(event) == event.type = "Jump"

\* C6: keyboard_input sends a Move event iff the net key direction
\* (D - A, W - S) is non-zero, at most one per step, pointing along the net
\* direction with length at most 1.
C6_MoveEvent ==
    (app = "controls" /\ pc = "update_grounded") =>
        LET horizontal == Bit("D" \in keys) - Bit("A" \in keys)
            vertical == Bit("W" \in keys) - Bit("S" \in keys)
            moves == SelectSeq(events, IsMove)
        IN  /\ Len(moves) <= 1
            /\ (Len(moves) = 1) <=> (horizontal # 0 \/ vertical # 0)
            /\ \A i \in DOMAIN moves :
                  LET d == moves[i].direction
                  IN  /\ d.x * d.x + d.y * d.y <= One * One
                      /\ Sign(d.x) = horizontal
                      /\ Sign(d.y) = vertical

\* W and S held together with A: the vertical axis cancels and one Move
\* event points left
C6_Witness ==
    /\ app = "controls" /\ pc = "update_grounded"
    /\ keys = {"W", "S", "A"}
    /\ events = <<[type |-> "Move", direction |-> Vec2(-One, 0)]>>

\* C7: after every run of orbit_camera the camera's translation is the
\* player's current translation plus an offset whose length is the camera
\* distance (Camera.distance in camera.rs, 10.0 in controls.rs), so the
\* camera does not coincide with the player.
C7_Rederived ==
    (last = "orbit_camera" /\ ~aborted) =>
        LET offset == VSub(cam.translation, ThePlayer)
            distance == IF app = "main" THEN cam.distance ELSE CAMERA_DISTANCE
        IN  /\ LengthSquared(offset) = (distance * One) * (distance * One)
            /\ cam.translation # ThePlayer

\* second frame of main: the player has moved, the distance has been
\* zoomed and the camera is pitched, and orbit_camera has just run
C7_Witness ==
    /\ app = "main" /\ frame = 1 /\ ~aborted
    /\ last = "orbit_camera"
    /\ ThePlayer # PlayerStart
    /\ cam.distance # DefaultDistance
    /\ cam.rotation.pitch # 0

DampingRuns == app = "controls" /\ pc = "apply_movement_damping" /\ pc' # pc

\* C8: apply_movement_damping multiplies the X and Z components of each
\* velocity by the damping factor and leaves Y unchanged.
C8_DampingKeepsY ==
    [][DampingRuns =>
          \A e \in players :
             /\ vel'[e].y = vel[e].y
             /\ vel'[e].x = DivT(vel[e].x * MovementDampingPct, 100)
             /\ vel'[e].z = DivT(vel[e].z * MovementDampingPct, 100)]_vars

\* damping has run on a velocity with all three components non-zero
C8_Witness ==
    /\ app = "controls" /\ pc = "physics"
    /\ vel[1].x # 0 /\ vel[1].y # 0 /\ vel[1].z # 0

MovementRuns == app = "controls" /\ pc = "movement" /\ pc' # pc

\* C9: in movement a Jump event sets the vertical velocity to the jump
\* impulse only for a controller whose hit list of that step is non-empty;
\* for an airborne controller it changes nothing, and a Jump event never
\* changes X or Z.
C9_JumpOnlyGrounded ==
    [][MovementRuns =>
          LET hasJump == \E i \in DOMAIN events : IsJump(events[i])
              hasMove == \E i \in DOMAIN events : IsMove(events[i])
          IN  \A e \in players :
                 LET airborne == hits[e] = <<>>
                 IN  /\ (hasJump /\ ~airborne) => vel'[e].y = JumpImpulse * One
                     /\ (~hasJump \/ airborne) => vel'[e].y = vel[e].y
                     /\ ~hasMove => (vel'[e].x = vel[e].x /\ vel'[e].z = vel[e].z)]_vars

\* movement has read a lone Jump event for an airborne controller and left
\* its velocity as the step found it
C9_Witness ==
    /\ app = "controls" /\ pc = "apply_movement_damping"
    /\ keys = {"Space"}
    /\ hits[1] = <<>>
    /\ vel[1] = vel0[1]

\* C10 as stated: at the end of every Update frame the camera's offset from
\* the player's current position has the length of the current
\* Camera.distance, whatever order the three Update systems ran in.
C10_NoLag ==
    (app = "main" /\ pc = "update" /\ ran = UpdateSystems /\ ~aborted) =>
        LengthSquared(VSub(cam.translation, ThePlayer))
            = (cam.distance * One) * (cam.distance * One)

====
